---- MODULE Spec2Model ----
(***************************************************************************)
(* A model of the AFSK modem core of Bell103 (src/afsk.cpp): the TX        *)
(* modulator and RX decoder state machines driven by the sample tick, and  *)
(* the serial bridge (flow control, escape sequence), the dialer and the   *)
(* carrier wait driven by the main loop.                                   *)
(***************************************************************************)
EXTENDS Integers, Sequences, FiniteSets, TLC

(***************************************************************************)
(* Symbols and flags (afsk.h).  The data bit is used as a number by the    *)
(* code (tx.data & 0x01, rx.bitsum += bt), so MARK is 1 and SPACE is 0.    *)
(***************************************************************************)
SPACE == 0
MARK == 1
OFF == 0
ON == 1
ORIGINATING == 0
ANSWERING == 1
COMMAND_MODE == 0
DATA_MODE == 1

\* Characters the code names
CR == 13
LF == 10
XON == 17
XOFF == 19
COMMA == 44
NUL == 0

\* FIFOs (afsk.cpp:33-39)
fifoSize == 6
fifoLow == 2 ^ (fifoSize - 2)
fifoMed == 2 ^ (fifoSize - 1)
fifoHgh == 2 ^ fifoSize - fifoLow
txCap == 2 ^ fifoSize
rxCap == 2 ^ fifoSize
dySize == 4
dyCap == 2 ^ dySize

\* The bias of the unsigned samples and the width of the 8-bit fields
bias == 128
Byte == 256

(***************************************************************************)
(* Bounds of the model.                                                    *)
(***************************************************************************)
\* Samples per second, scaled (fulBit = F_SAMPLE / baud)
F_SAMPLE == 96
\* Number of preamble / trail carrier bits
carBits == 2
\* Width of the phase accumulator (number of phase values)
IdxMod == 4
\* Bytes the transport delivers in one run
MaxBytes == 2
\* The clock stops at this many milliseconds
MaxTime == 60
\* Sample ticks in one run of the specifications that bound them
MaxTicks == 1
\* Sample ticks in one run of setDirection with the sample tick
MaxDelayTicks == 3
\* Bytes the transport delivers in one run of the main context
MainBytes == 1
\* Tone decisions in one run of the decoder alone
MaxRxTicks == 30
MaxCdTicks == 12
\* Bytes the transport delivers in one run of the escape sequence
MaxEscBytes == 4
\* Bytes the serial transport holds
SerCap == 1
\* Bytes the transport holds, and delivers, in a run of bursts
BurstCap == 2
MaxBurstBytes == 5
\* The clock advances by this many milliseconds
TimeStep == 10

VARIABLES
  cfg,          \* the configuration structure (CFG_t *cfg)
  cfgAFSK,      \* the modem type: baud, dtbits, orig and answ profiles
  fsqTX, fsqRX, \* which profile ("orig"/"answ") TX and RX use
  fulBit, hlfBit, qrtBit, octBit, \* samples per bit and its fractions
  cdTotal, cdCount,               \* carrier detect threshold and counter
  _guard, _online, _mode, _dir,
  _dialing, _commaCnt, _commaMax, dialChar, dtmf,
  tx, rx,                         \* TxState, RxState
  txFIFO, rxFIFO, dyFIFO,
  flowControl,
  escCount, escFirst, escLast, lstChar, now,  \* statics of doSIO
  millis,       \* the clock
  serIn,        \* bytes waiting on the serial transport
  serOut,       \* what the last operation wrote to the transport
  portCD,       \* PORTB2: the CD led / CTS line
  pc,           \* where the main context is: "main", or inside a blocking call
  timeout,      \* the timeout of checkCarrier
  result,       \* what the last blocking call returned
  dirIdx,       \* the index i of the loop of setDirection
  hist          \* observations of the run (not program state)

vars == <<cfg, cfgAFSK, fsqTX, fsqRX, fulBit, hlfBit, qrtBit, octBit,
          cdTotal, cdCount, _guard, _online, _mode, _dir,
          _dialing, _commaCnt, _commaMax, dialChar, dtmf, tx, rx,
          txFIFO, rxFIFO, dyFIFO, flowControl,
          escCount, escFirst, escLast, lstChar, now, millis,
          serIn, serOut, portCD, pc, timeout, result, dirIdx, hist>>

(***************************************************************************)
(* Arithmetic of the C code.                                               *)
(***************************************************************************)
\* x >> n on a signed value (arithmetic shift: floor division)
Shr(x, n) == x \div (2 ^ n)

\* bit i of byte b
BitOf(b, i) == (b \div (2 ^ i)) % 2

(***************************************************************************)
(* The bounded ring buffer (FIFO class), as a sequence, oldest first.      *)
(***************************************************************************)
FifoFull(q, cap) == Len(q) >= cap
FifoIn(q, x, cap) == IF FifoFull(q, cap) THEN q ELSE Append(q, x)
FifoInOk(q, cap) == ~FifoFull(q, cap)
FifoOut(q) == Tail(q)
FifoHead(q) == Head(q)

(***************************************************************************)
(* The tone generators (WAVE, DTMF classes).                               *)
(***************************************************************************)
\* wave.getStep(freq): the phase step of a tone, in phase units
WaveStep(freq) == freq % IdxMod

\* dtmf.send(c): the tone of c lasts dtmfLen samples; dtmf.getSample()
\* is true, and consumes one sample, while the tone lasts
dtmfLen == 2
DtmfSend(c) == dtmfLen
DtmfHasSample(d) == d > 0
DtmfNext(d) == IF d > 0 THEN d - 1 ELSE 0

(***************************************************************************)
(* TX: AFSK::txHandle                                                      *)
(***************************************************************************)
\* The limit of tx.clk: a bit is over when tx.clk++ >= fulBit
TxBitOver(t) == t.clk >= fulBit

\* The number of data bits of a frame
TxDataBits == cfgAFSK.dtbits

\* The end of the trail: ++tx.bits > carBits
TrailOver(b) == b > carBits

\* WAIT: the carrier is MARK; take one byte from the FIFO, if any
TxWait(t, q) ==
  IF q /= <<>>
    THEN [tx |-> [t EXCEPT !.dtbit = MARK, !.data = FifoHead(q),
                           !.state = "PREAMBLE", !.bits = 0],
          fifo |-> FifoOut(q)]
    ELSE [tx |-> [t EXCEPT !.dtbit = MARK, !.state = "WAIT"], fifo |-> q]

\* A preamble that does not look at the forced carrier
TxPreambleWhole(t, q) ==
  LET b == (t.bits + 1) % Byte IN
  IF b >= carBits
    THEN [tx |-> [t EXCEPT !.bits = b, !.state = "START_BIT", !.dtbit = SPACE],
          fifo |-> q]
    ELSE [tx |-> [t EXCEPT !.bits = b], fifo |-> q]

\* PREAMBLE: the carrier was sent long enough, or the carrier is forced
TxPreamble(t, q) ==
  LET b == (t.bits + 1) % Byte IN
  IF b >= carBits \/ t.carrier = ON
    THEN [tx |-> [t EXCEPT !.bits = b, !.state = "START_BIT", !.dtbit = SPACE],
          fifo |-> q]
    ELSE [tx |-> [t EXCEPT !.bits = b], fifo |-> q]

\* START_BIT: the start bit was sent, go on with the first data bit
TxStartBit(t, q) ==
  [tx |-> [t EXCEPT !.state = "DATA_BIT", !.dtbit = t.data % 2,
                    !.data = t.data \div 2, !.bits = 0],
   fifo |-> q]

\* A transmitter that sends one data bit too many
TxDataBitLong(t, q) ==
  LET b == (t.bits + 1) % Byte IN
  IF b <= TxDataBits
    THEN [tx |-> [t EXCEPT !.bits = b, !.dtbit = t.data % 2,
                           !.data = t.data \div 2],
          fifo |-> q]
    ELSE [tx |-> [t EXCEPT !.bits = b, !.state = "STOP_BIT", !.dtbit = MARK],
          fifo |-> q]

\* DATA_BIT: LSB to MSB, then the stop bit
TxDataBit(t, q) ==
  LET b == (t.bits + 1) % Byte IN
  IF b < TxDataBits
    THEN [tx |-> [t EXCEPT !.bits = b, !.dtbit = t.data % 2,
                           !.data = t.data \div 2],
          fifo |-> q]
    ELSE [tx |-> [t EXCEPT !.bits = b, !.state = "STOP_BIT", !.dtbit = MARK],
          fifo |-> q]

\* STOP_BIT: the next byte, if any, else the trail carrier
TxStopBit(t, q) ==
  IF q = <<>>
    THEN [tx |-> [t EXCEPT !.state = "TRAIL", !.dtbit = MARK, !.bits = 0],
          fifo |-> q]
    ELSE [tx |-> [t EXCEPT !.state = "START_BIT", !.dtbit = SPACE,
                           !.data = FifoHead(q)],
          fifo |-> FifoOut(q)]

\* TRAIL: the trail carrier, checking the FIFO again
TxTrail(t, q) ==
  LET b == (t.bits + 1) % Byte IN
  IF TrailOver(b)
    THEN [tx |-> [t EXCEPT !.bits = b, !.active = OFF, !.state = "WAIT"],
          fifo |-> q]
    ELSE IF b = carBits /\ t.carrier = OFF
      THEN [tx |-> [t EXCEPT !.bits = b, !.dtbit = MARK, !.idx = 0, !.clk = 0],
            fifo |-> q]
      ELSE IF q /= <<>>
        THEN [tx |-> [t EXCEPT !.bits = b, !.state = "START_BIT",
                               !.dtbit = SPACE, !.data = FifoHead(q)],
              fifo |-> FifoOut(q)]
        ELSE [tx |-> [t EXCEPT !.bits = b], fifo |-> q]

\* One bit finished: choose the next bit and TX state (the switch)
TxBit(t, q) ==
  CASE t.state = "WAIT"      -> TxWait(t, q)
    [] t.state = "PREAMBLE"  -> TxPreamble(t, q)
    [] t.state = "START_BIT" -> TxStartBit(t, q)
    [] t.state = "DATA_BIT"  -> TxDataBit(t, q)
    [] t.state = "STOP_BIT"  -> TxStopBit(t, q)
    [] t.state = "TRAIL"     -> TxTrail(t, q)
    [] OTHER                 -> [tx |-> t, fifo |-> q]

\* The transmitting branch of txHandle: step the phase, count the sample
TxSample(t, q) ==
  LET t1 == [t EXCEPT !.idx = (t.idx + cfgAFSK[fsqTX].step[t.dtbit]) % IdxMod]
  IN IF TxBitOver(t1)
       THEN TxBit([t1 EXCEPT !.clk = 0], q)
       ELSE [tx |-> [t1 EXCEPT !.clk = t1.clk + 1], fifo |-> q]

\* The dialing branch of txHandle
\* d: [dialing, dialChar, commaCnt, dtmf, fifo]
TxDial(q) ==
  LET d0 == [dialing |-> _dialing, dialChar |-> dialChar,
             commaCnt |-> _commaCnt, dtmf |-> dtmf, fifo |-> q]
  IN IF dialChar = COMMA
       THEN IF _commaCnt >= _commaMax
              THEN [d0 EXCEPT !.dialChar = NUL, !.commaCnt = 0]
              ELSE [d0 EXCEPT !.commaCnt = _commaCnt + 1]
       ELSE IF DtmfHasSample(dtmf)
         THEN [d0 EXCEPT !.dtmf = DtmfNext(dtmf)]
         ELSE IF q /= <<>>
           THEN [d0 EXCEPT !.dialChar = FifoHead(q), !.fifo = FifoOut(q),
                           !.dtmf = IF FifoHead(q) /= COMMA
                                      THEN DtmfSend(FifoHead(q)) ELSE dtmf]
           ELSE [d0 EXCEPT !.dialing = OFF]

\* Whether txHandle transmits at this tick
TxOn(t) == t.active = ON \/ t.carrier = ON

(***************************************************************************)
(* RX: AFSK::rxDecoder                                                     *)
(***************************************************************************)
\* HIGH->LOW transition in the last two decisions: (rx.stream & 0x03) == 0x02
RxEdge(r) == r.stream % 4 = 2

\* Too many HIGHs in the first half of the start bit
RxHalfBad(r) == r.bitsum > octBit

\* A whole start bit checked against the half of the bit
RxStartBadLoose(r) == r.bitsum > hlfBit

\* Too many HIGHs in the whole start bit
RxStartBad(r) == r.bitsum > qrtBit

\* The value of a data bit: the majority of the decisions of its window
RxBitVal(r) == IF r.bitsum > hlfBit THEN 128 ELSE 0

\* A stop bit checked against the half of the bit
RxStopOkHalf(r) == r.bitsum > hlfBit

\* The first half of the stop bit is HIGH enough
RxStopOk(r) == r.bitsum > qrtBit

\* r: RxState after the counters were updated; q: rxFIFO; cd: cdCount
\* The result is [rx, fifo, cd, pushed]
RxCarrier(r, bt, q, cd) ==
  IF bt /= 0
    THEN IF cd + 1 >= cdTotal
           THEN [rx |-> [r EXCEPT !.carrier = ON, !.state = "WAIT"],
                 fifo |-> q, cd |-> cd + 1, pushed |-> <<>>]
           ELSE [rx |-> r, fifo |-> q, cd |-> cd + 1, pushed |-> <<>>]
    ELSE [rx |-> r, fifo |-> q, cd |-> 0, pushed |-> <<>>]

RxWait(r, q, cd) ==
  IF RxEdge(r)
    THEN [rx |-> [r EXCEPT !.state = "PREAMBLE", !.clk = 0, !.bitsum = 0],
          fifo |-> q, cd |-> cd, pushed |-> <<>>]
    ELSE [rx |-> r, fifo |-> q, cd |-> cd, pushed |-> <<>>]

RxPreamble(r, q, cd) ==
  IF r.clk >= hlfBit
    THEN IF RxHalfBad(r)
           THEN [rx |-> [r EXCEPT !.state = "WAIT"],
                 fifo |-> q, cd |-> cd, pushed |-> <<>>]
           ELSE [rx |-> [r EXCEPT !.state = "START_BIT"],
                 fifo |-> q, cd |-> cd, pushed |-> <<>>]
    ELSE [rx |-> r, fifo |-> q, cd |-> cd, pushed |-> <<>>]

RxStartBit(r, q, cd) ==
  IF RxStartBad(r)
    THEN [rx |-> [r EXCEPT !.state = "WAIT"],
          fifo |-> q, cd |-> cd, pushed |-> <<>>]
    ELSE [rx |-> [r EXCEPT !.state = "DATA_BIT", !.data = 0, !.clk = 0,
                           !.bitsum = 0, !.bits = 0],
          fifo |-> q, cd |-> cd, pushed |-> <<>>]

RxDataBit(r, q, cd) ==
  LET d == (r.data \div 2) + RxBitVal(r)
      b == (r.bits + 1) % Byte
  IN IF b < cfgAFSK.dtbits
       THEN [rx |-> [r EXCEPT !.data = d, !.bits = b, !.clk = 0, !.bitsum = 0],
             fifo |-> q, cd |-> cd, pushed |-> <<>>]
       ELSE [rx |-> [r EXCEPT !.data = d, !.bits = b, !.state = "STOP_BIT",
                              !.clk = hlfBit, !.bitsum = 0],
             fifo |-> q, cd |-> cd, pushed |-> <<>>]

\* A stop bit that waits for its HIGHs
RxStopBitStay(r, q, cd) ==
  IF RxStopOk(r)
    THEN [rx |-> [r EXCEPT !.state = "WAIT"],
          fifo |-> FifoIn(q, r.data, rxCap), cd |-> cd, pushed |-> <<r.data>>]
    ELSE [rx |-> r, fifo |-> q, cd |-> cd, pushed |-> <<>>]

RxStopBit(r, q, cd) ==
  IF RxStopOk(r)
    THEN [rx |-> [r EXCEPT !.state = "WAIT"],
          fifo |-> FifoIn(q, r.data, rxCap), cd |-> cd, pushed |-> <<r.data>>]
    ELSE [rx |-> [r EXCEPT !.state = "WAIT"],
          fifo |-> q, cd |-> cd, pushed |-> <<>>]

\* The states other than CARRIER, WAIT and PREAMBLE, once a bit is complete
RxFullBit(r, q, cd) ==
  CASE r.state = "START_BIT" -> RxStartBit(r, q, cd)
    [] r.state = "DATA_BIT"  -> RxDataBit(r, q, cd)
    [] r.state = "STOP_BIT"  -> RxStopBit(r, q, cd)
    [] OTHER                 -> [rx |-> r, fifo |-> q, cd |-> cd, pushed |-> <<>>]

\* rxDecoder(bt)
RxDecoder(r0, bt, q, cd) ==
  LET r == [r0 EXCEPT !.bitsum = (r0.bitsum + bt) % Byte,
                      !.stream = (r0.stream * 2 + bt) % 4,
                      !.clk = (r0.clk + 1) % Byte]
  IN CASE r.state = "CARRIER"  -> RxCarrier(r, bt, q, cd)
       [] r.state = "WAIT"     -> RxWait(r, q, cd)
       [] r.state = "PREAMBLE" -> RxPreamble(r, q, cd)
       [] OTHER -> IF r.clk >= fulBit
                     THEN RxFullBit(r, q, cd)
                     ELSE [rx |-> r, fifo |-> q, cd |-> cd, pushed |-> <<>>]

(***************************************************************************)
(* RX: AFSK::rxHandle                                                      *)
(***************************************************************************)
\* The signed sample: int8_t ss = sample - bias
Signed8(x) == ((x + 128) % Byte) - 128

\* The tone decision of the low-passed autocorrelation
RxTone(y) == IF y > 0 THEN MARK ELSE SPACE

\* x XOR p on one bit
Xor1(x, p) == (x + p) % 2

\* rxHandle(sample): the result is [rx, fifo, cd, pushed, dy]
RxHandle(r0, sample, q, cd, dy) ==
  LET ss == Signed8(sample - bias)
      x1 == Shr((FifoHead(dy) - 128) * ss, 2)
      y1 == r0.iirX[2] + x1 + Shr(r0.iirY[2], 1)
      r1 == [r0 EXCEPT !.iirX = <<r0.iirX[2], x1>>,
                       !.iirY = <<r0.iirY[2], y1>>,
                       !.active = ON]
      res == RxDecoder(r1, Xor1(RxTone(y1), cfgAFSK[fsqRX].polarity), q, cd)
  IN [rx |-> res.rx, fifo |-> res.fifo, cd |-> res.cd, pushed |-> res.pushed,
      dy |-> FifoIn(FifoOut(dy), sample, dyCap)]

(***************************************************************************)
(* The serial transport (Serial): available, peek, read on the input.      *)
(***************************************************************************)
\* Serial.peek() and Serial.read() return -1 when nothing is waiting
SerPeek(s) == IF s = <<>> THEN -1 ELSE Head(s)
SerRead(s) == IF s = <<>> THEN <<>> ELSE Tail(s)

\* The value kept in a uint8_t
U8(x) == x % Byte

\* Serial.print("\r\nOK\r\n")
OKMSG == <<CR, LF, 79, 75, CR, LF>>

(***************************************************************************)
(* The serial bridge: AFSK::doSIO                                          *)
(***************************************************************************)
\* A guard silence that is over one tick too early
EscGuardOverEarly(n, last) == n - last >= cfg.sregs[12] * 20

\* The guard silence after the third escape character (S12) is over
EscGuardOver(n, last) == n - last > cfg.sregs[12] * 20

\* The character that ends the look at the line while waiting: CR or LF
IsCRLF(c) == c = CR \/ c = LF

\* A bridge that keeps the escape string whatever follows it
EscSeenNoCancel(e, avail, n) ==
  IF e.esc = 3 /\ n - escLast > cfg.sregs[12] * 20
    THEN [e EXCEPT !.mode = COMMAND_MODE, !.esc = 0, !.out = e.out \o OKMSG]
    ELSE e

\* The first part: the escape string was seen (escCount == 3)
\* e: [esc, mode, ser, out]
EscSeen(e, avail, n) ==
  IF e.esc = 3
    THEN IF EscGuardOver(n, escLast)
           THEN [e EXCEPT !.mode = COMMAND_MODE, !.esc = 0, !.out = e.out \o OKMSG]
           ELSE IF avail
             THEN IF IsCRLF(U8(SerPeek(e.ser)))
                    THEN [e EXCEPT !.ser = SerRead(e.ser)]
                    ELSE [e EXCEPT !.esc = 0]
             ELSE e
    ELSE e

\* The second part: count the escape characters (S2)
\* the result is [esc, first, last]
EscCount(esc, s, avail, n) ==
  IF avail /\ SerPeek(s) = cfg.sregs[2]
    THEN IF n - escFirst > _guard
           THEN IF n - lstChar >= _guard
                  THEN [esc |-> 1, first |-> n, last |-> escLast]
                  ELSE [esc |-> esc, first |-> escFirst, last |-> escLast]
           ELSE [esc |-> U8(esc + 1), first |-> escFirst,
                 last |-> IF U8(esc + 1) = 3 THEN n ELSE escLast]
    ELSE [esc |-> esc, first |-> escFirst, last |-> escLast]

\* The FIFO is not getting full
FifoRoom(q) == Len(q) < fifoHgh

\* A bridge that takes the byte whatever the flow control says
CanTakeAlways(q, avail, fc) == avail

\* We can take the byte
CanTake(q, avail, fc) == avail /\ (Len(q) < fifoMed \/ ~fc)

\* The flow control has to engage
MustEngage(fc, c) == ~fc /\ c.flwctr /= 0

\* A bridge that releases the flow control below the medium threshold
CanReleaseEarly(fc, q) == fc /\ Len(q) < fifoMed

\* The flow control can be released
CanRelease(fc, q) == fc /\ Len(q) < fifoLow

\* if (cfg->flwctr = 4) ... else if (cfg->flwctr = 3): the assignments the
\* conditions make, and the branch taken (an assignment is true when the
\* value assigned is not zero)
FlowAssign(c) == [c EXCEPT !.flwctr = 4]
FlowBranch(c) == IF FlowAssign(c).flwctr /= 0 THEN "XONXOFF" ELSE "RTSCTS"

\* The third part, in data mode: take one byte, flow control, RX drain
\* f: [ser, txq, rxq, fc, cfg, out, port, active, lst, took]
SioTake(f, avail, n) ==
  IF FifoRoom(f.txq)
    THEN IF CanTake(f.txq, avail, f.fc)
           THEN LET c == U8(SerPeek(f.ser))
                IN [f EXCEPT !.ser = SerRead(f.ser),
                             !.txq = FifoIn(f.txq, c, txCap),
                             !.out = IF FifoInOk(f.txq, txCap) /\ f.cfg.dtecho = ON
                                       THEN f.out \o <<c>> ELSE f.out,
                             !.lst = n, !.active = ON, !.took = <<c>>]
           ELSE f
    ELSE IF MustEngage(f.fc, f.cfg)
      THEN [f EXCEPT !.cfg = FlowAssign(f.cfg),
                     !.out = IF FlowBranch(f.cfg) = "XONXOFF"
                               THEN f.out \o <<XOFF>> ELSE f.out,
                     !.port = IF FlowBranch(f.cfg) = "XONXOFF"
                                THEN f.port ELSE OFF,
                     !.fc = TRUE]
      ELSE f

SioRelease(f) ==
  IF CanRelease(f.fc, f.txq)
    THEN [f EXCEPT !.cfg = FlowAssign(f.cfg),
                   !.out = IF FlowBranch(f.cfg) = "XONXOFF"
                             THEN f.out \o <<XON>> ELSE f.out,
                   !.port = IF FlowBranch(f.cfg) = "XONXOFF"
                              THEN f.port ELSE ON,
                   !.fc = FALSE]
    ELSE f

SioDrain(f) ==
  IF f.rxq /= <<>>
    THEN [f EXCEPT !.rxq = FifoOut(f.rxq), !.out = f.out \o <<FifoHead(f.rxq)>>]
    ELSE f

\* The whole of doSIO at time n; the result is the record of what it leaves
SioCall(n) ==
  LET avail == serIn /= <<>>
      e == EscSeen([esc |-> escCount, mode |-> _mode, ser |-> serIn, out |-> <<>>],
                   avail, n)
      k == EscCount(e.esc, e.ser, avail, n)
      f0 == [ser |-> e.ser, txq |-> txFIFO, rxq |-> rxFIFO, fc |-> flowControl,
             cfg |-> cfg, out |-> e.out, port |-> portCD, active |-> tx.active,
             lst |-> lstChar, took |-> <<>>]
      f == IF e.mode /= COMMAND_MODE
             THEN SioDrain(SioRelease(SioTake(f0, avail, n)))
             ELSE f0
  IN [esc |-> k.esc, first |-> k.first, last |-> k.last, mode |-> e.mode,
      ok |-> e.out /= <<>>, f |-> f]

(***************************************************************************)
(* Configuration of the modem: setModemType, setDirection, setLine,        *)
(* setMode, setCarrier.                                                    *)
(***************************************************************************)
\* initSteps: the steps of the four tones
InitSteps(afsk) ==
  [afsk EXCEPT !.orig.step = [b \in {SPACE, MARK} |-> WaveStep(afsk.orig.freq[b])],
               !.answ.step = [b \in {SPACE, MARK} |-> WaveStep(afsk.answ.freq[b])]]

\* setCarrier(onoff): tx.carrier = onoff & cfg->txcarr
CarrierOf(onoff, c) == IF onoff = ON /\ c.txcarr = ON THEN ON ELSE OFF

\* setDirection: TX uses the originating tones when originating (and not
\* reversed), or when answering with the reverse answer configured
TxIsOrig(dir, rev, c) ==
  (dir = ORIGINATING /\ rev = OFF) \/ (dir = ANSWERING /\ c.revans = ON)

\* The delay queue after setDirection: queuelen times the bias
DelayLine(n) == [i \in 1..(IF n < dyCap THEN n ELSE dyCap) |-> bias]

\* CarrierDetect threshold of setModemType
CdTotalOf(c) ==
  LET t == (F_SAMPLE \div 10) * c.sregs[9] IN t - Shr(t, 4)

SetDirectionTo(dir, rev, afsk) ==
  /\ _dir' = dir
  /\ tx' = [tx EXCEPT !.carrier = CarrierOf(OFF, cfg)]
  /\ fsqTX' = IF TxIsOrig(dir, rev, cfg) THEN "orig" ELSE "answ"
  /\ fsqRX' = IF TxIsOrig(dir, rev, cfg) THEN "answ" ELSE "orig"
  /\ rxFIFO' = <<>>
  /\ txFIFO' = <<>>
  /\ dyFIFO' = DelayLine(afsk[IF TxIsOrig(dir, rev, cfg) THEN "answ" ELSE "orig"].queuelen)

(***************************************************************************)
(* Observations: what the run did, for the properties.  They are written   *)
(* by the actions and never read by them (the byte quota aside).           *)
(***************************************************************************)
HistInit(log) ==
  [log |-> log, arrived |-> 0, ticks |-> 0,
   sent |-> <<>>, rcvd |-> <<>>,
   sioBand |-> "low", sioFc |-> FALSE, sioTook |-> <<>>, sioEsc |-> 0,
   sioHead |-> -1, sioLate |-> FALSE, seen |-> <<>>, seenAt |-> <<>>,
   txFrom |-> "none", txByte |-> 0, txSyms |-> <<>>,
   rxN |-> 0, rxHigh |-> 0, rxHalf |-> FALSE, rxFull |-> FALSE,
   dialLen |-> 0, dialFed |-> 0, dialFramed |-> 0, dialTick |-> FALSE,
   dialCut |-> FALSE, dialRet |-> "none", bitTicks |-> 0, bitLen |-> 0,
   preCarr |-> -1, cdRun |-> 0, cdIn |-> 0, rxAway |-> 0,
   stN |-> 0, stHigh |-> 0, setDir |-> FALSE]

\* The band of a length of the TX queue, by the thresholds
BandOf(n) ==
  IF n < fifoLow THEN "low"
  ELSE IF n < fifoMed THEN "med"
  ELSE IF n < fifoHgh THEN "hgh" ELSE "full"

\* The last n of a sequence
LastN(q, n) == IF Len(q) <= n THEN q ELSE SubSeq(q, Len(q) - n + 1, Len(q))

\* What a transmitter step adds: the symbol chosen at a bit boundary, from
\* the byte taken from the FIFO on
HistTx(h, boundary, t0, t1, q0, q1) ==
  IF ~boundary THEN h
  ELSE IF Len(q1) < Len(q0)
    THEN [h EXCEPT !.txFrom = t0.state, !.txByte = Head(q0),
                   !.txSyms = <<t1.dtbit>>, !.preCarr = -1]
    ELSE IF h.txFrom /= "none" /\ t0.state \in {"PREAMBLE", "START_BIT", "DATA_BIT"}
      THEN [h EXCEPT !.txSyms = Append(h.txSyms, t1.dtbit),
                     !.preCarr = IF t0.state = "PREAMBLE" /\ t1.state = "START_BIT"
                                   THEN t0.carrier ELSE h.preCarr]
      ELSE h

\* What a decoder step adds: the decisions counted since the edge
\* The states of the decoder inside a frame
RxFrameStates == {"PREAMBLE", "START_BIT", "DATA_BIT", "STOP_BIT"}

HistRx(h, r0, r1, bt, pushed) ==
  LET h1 == IF r0.state = "WAIT" /\ r1.state = "PREAMBLE"
              THEN [h EXCEPT !.rxN = 0, !.rxHigh = 0, !.rxHalf = FALSE,
                             !.rxFull = FALSE]
              ELSE IF r0.state \in {"PREAMBLE", "START_BIT"}
                THEN [h EXCEPT !.rxN = h.rxN + 1, !.rxHigh = h.rxHigh + bt]
                ELSE h
      h2 == IF r0.state = "PREAMBLE" /\ r1.state = "START_BIT"
              THEN [h1 EXCEPT !.rxHalf = h1.rxN = hlfBit /\ h1.rxHigh <= octBit]
              ELSE IF r0.state = "START_BIT" /\ r1.state = "DATA_BIT"
                THEN [h1 EXCEPT !.rxFull = h1.rxN = fulBit /\ h1.rxHigh <= qrtBit]
                ELSE h1
      run == IF bt = 0 THEN 0
             ELSE IF h.cdRun < cdTotal THEN h.cdRun + 1 ELSE cdTotal
      h3 == [h2 EXCEPT !.cdRun = run,
                       !.stN = IF r0.state = "DATA_BIT" /\ r1.state = "STOP_BIT"
                                 THEN 0
                                 ELSE IF r0.state = "STOP_BIT"
                                   THEN h.stN + 1 ELSE h.stN,
                       !.stHigh = IF r0.state = "DATA_BIT" /\ r1.state = "STOP_BIT"
                                    THEN 0
                                    ELSE IF r0.state = "STOP_BIT"
                                      THEN h.stHigh + bt ELSE h.stHigh,
                       !.rxAway = IF r0.state = "WAIT" /\ r1.state = "PREAMBLE"
                                    THEN 0
                                    ELSE IF r0.state \in RxFrameStates
                                      THEN h.rxAway + 1 ELSE h.rxAway,
                       !.cdIn = IF r0.state /= "CARRIER" THEN h.cdIn
                                ELSE IF bt = 0 THEN 0
                                ELSE IF h.cdIn < cdTotal THEN h.cdIn + 1
                                ELSE cdTotal]
  IN IF h.log THEN [h3 EXCEPT !.rcvd = h.rcvd \o pushed] ELSE h3

(***************************************************************************)
(* Groups of variables an action leaves alone.                             *)
(***************************************************************************)
modemVars == <<cfgAFSK, fsqTX, fsqRX, fulBit, hlfBit, qrtBit, octBit, cdTotal,
               _guard, _dir>>
dialVars == <<_dialing, _commaCnt, _commaMax, dialChar, dtmf>>
escVars == <<escCount, escFirst, escLast, lstChar, now>>
mainVars == <<pc, timeout, result, dirIdx>>
serVars == <<serIn, serOut, portCD>>

(***************************************************************************)
(* The environment: the serial transport and the clock.                    *)
(***************************************************************************)
\* A byte arrives on the serial transport, which holds cap bytes; at most
\* quota of them arrive in a run
ArriveUpTo(b, quota, cap) ==
  /\ Len(serIn) < cap
  /\ hist.arrived < quota
  /\ serIn' = Append(serIn, b)
  /\ hist' = [hist EXCEPT !.arrived = hist.arrived + 1]
  /\ UNCHANGED <<cfg, modemVars, cdCount, _online, _mode, dialVars, tx, rx,
                 txFIFO, rxFIFO, dyFIFO, flowControl, escVars, millis,
                 serOut, portCD, mainVars>>

\* The same, on a transport that holds SerCap bytes
Arrive(b, quota) == ArriveUpTo(b, quota, SerCap)

SerialArrive(b) == Arrive(b, MaxBytes)

\* The same, for the runs of the escape sequence
EscArrive(b) == Arrive(b, MaxEscBytes)

\* The command interpreter reads a byte of the transport, in command mode
AtRead ==
  /\ pc = "main"
  /\ _mode = COMMAND_MODE
  /\ serIn /= <<>>
  /\ serIn' = Tail(serIn)
  /\ UNCHANGED <<cfg, modemVars, cdCount, _online, _mode, dialVars, tx, rx,
                 txFIFO, rxFIFO, dyFIFO, flowControl, escVars, millis,
                 serOut, portCD, mainVars, hist>>

\* A byte arrives on the serial transport, as long as the sender goes on
SerialStream(b) ==
  /\ Len(serIn) < SerCap
  /\ serIn' = Append(serIn, b)
  /\ hist' = hist
  /\ UNCHANGED <<cfg, modemVars, cdCount, _online, _mode, dialVars, tx, rx,
                 txFIFO, rxFIFO, dyFIFO, flowControl, escVars, millis,
                 serOut, portCD, mainVars>>

\* The clock advances
Advance(d) ==
  /\ millis + d <= MaxTime
  /\ millis' = millis + d
  /\ hist' = hist
  /\ UNCHANGED <<cfg, modemVars, cdCount, _online, _mode, dialVars, tx, rx,
                 txFIFO, rxFIFO, dyFIFO, flowControl, escVars,
                 serVars, mainVars>>

(***************************************************************************)
(* The sample tick.                                                        *)
(***************************************************************************)
\* What a transmitting tick adds: the ticks counted since the last bit
\* boundary and, at the boundary that ends a start, data or stop bit, the
\* number of ticks the symbol lasted
HistBit(h, boundary, t0) ==
  IF boundary
    THEN [h EXCEPT !.bitTicks = 0,
                   !.bitLen = IF t0.state \in {"START_BIT", "DATA_BIT", "STOP_BIT"}
                                THEN h.bitTicks + 1 ELSE h.bitLen]
    ELSE [h EXCEPT !.bitTicks = h.bitTicks + 1]

\* What a tick adds while dial() runs: the bytes the dialing branch and the
\* framing branch took out of the TX queue, and the end of the dialing
HistDial(h, framing, q0, q1, off) ==
  IF _dialing /= ON THEN h
  ELSE LET n == IF Len(q1) < Len(q0) THEN 1 ELSE 0
       IN IF framing
            THEN [h EXCEPT !.dialFramed = h.dialFramed + n]
            ELSE [h EXCEPT !.dialFed = h.dialFed + n,
                           !.dialTick = h.dialTick \/ off]

\* txHandle(): the variables it writes, given the observations to keep
TxHandleTo(h) ==
  IF TxOn(tx)
    THEN LET res == TxSample(tx, txFIFO)
         IN /\ tx' = res.tx
            /\ txFIFO' = res.fifo
            /\ hist' = HistDial(HistTx(HistBit(h, TxBitOver(tx), tx),
                                       TxBitOver(tx), tx, res.tx, txFIFO,
                                       res.fifo),
                                TRUE, txFIFO, res.fifo, FALSE)
            /\ UNCHANGED dialVars
    ELSE IF _dialing = ON
      THEN LET d == TxDial(txFIFO)
           IN /\ _dialing' = d.dialing
              /\ dialChar' = d.dialChar
              /\ _commaCnt' = d.commaCnt
              /\ dtmf' = d.dtmf
              /\ txFIFO' = d.fifo
              /\ hist' = HistDial(h, FALSE, txFIFO, d.fifo, d.dialing = OFF)
              /\ UNCHANGED <<tx, _commaMax>>
      ELSE /\ hist' = h
           /\ UNCHANGED <<tx, txFIFO, dialVars>>

\* txHandle() alone
TxHandle ==
  /\ TxHandleTo(hist)
  /\ UNCHANGED <<cfg, modemVars, cdCount, _online, _mode, rx, rxFIFO, dyFIFO,
                 flowControl, escVars, millis, serVars, mainVars>>

\* rxDecoder(bt) alone: any stream of tone decisions
RxDecoderStep(bt) ==
  LET res == RxDecoder(rx, bt, rxFIFO, cdCount)
  IN /\ hist.ticks < MaxRxTicks
     /\ rx' = res.rx
     /\ rxFIFO' = res.fifo
     /\ cdCount' = res.cd
     /\ hist' = HistRx([hist EXCEPT !.ticks = hist.ticks + 1],
                       rx, res.rx, bt, res.pushed)
     /\ UNCHANGED <<cfg, modemVars, _online, _mode, dialVars, tx, txFIFO, dyFIFO,
                    flowControl, escVars, millis, serVars, mainVars>>

\* dyFIFO.out() on an empty queue is outside the contract of the queue: it
\* gives back any byte, and either leaves the queue empty or steps the tail
\* index past the head, after which the queue counts dyCap - 1 stale bytes.
\* The queue as that call of out() finds it:
DyGarbage == {0, 255}
DyOutcomes(dy) ==
  IF dy /= <<>>
    THEN {dy}
    ELSE {<<g>> : g \in DyGarbage} \cup {[i \in 1..dyCap |-> g] : g \in DyGarbage}

\* The decision rxHandle gives to the decoder for a sample
RxDecision(sample, dy) ==
  LET ss == Signed8(sample - bias)
      x1 == Shr((FifoHead(dy) - 128) * ss, 2)
      y1 == rx.iirX[2] + x1 + Shr(rx.iirY[2], 1)
  IN Xor1(RxTone(y1), cfgAFSK[fsqRX].polarity)

\* doTXRX(): when online, txHandle() then rxHandle(sample)
DoTXRXUpTo(sample, n) ==
  /\ hist.ticks < n
  /\ IF _online = ON
       THEN \E dy \in DyOutcomes(dyFIFO) :
            LET res == RxHandle(rx, sample, rxFIFO, cdCount, dy)
            IN /\ TxHandleTo(HistRx([hist EXCEPT !.ticks = hist.ticks + 1],
                                    rx, res.rx, RxDecision(sample, dy), res.pushed))
               /\ rx' = res.rx
               /\ rxFIFO' = res.fifo
               /\ cdCount' = res.cd
               /\ dyFIFO' = res.dy
       ELSE /\ hist' = [hist EXCEPT !.ticks = hist.ticks + 1]
            /\ UNCHANGED <<tx, txFIFO, dialVars, rx, rxFIFO, cdCount, dyFIFO>>
  /\ UNCHANGED <<cfg, modemVars, _online, _mode, flowControl, escVars, millis,
                 serVars, mainVars>>

\* The sample tick, in a run of the main context
DoTXRX(sample) == DoTXRXUpTo(sample, MaxTicks)

\* The loopback of the round trip: the symbol txHandle emits at a tick is
\* the tone decision rxDecoder gets at the same tick
LoopTick ==
  /\ TxOn(tx)
  /\ LET res == RxDecoder(rx, tx.dtbit, rxFIFO, cdCount)
     IN /\ TxHandleTo(HistRx(hist, rx, res.rx, tx.dtbit,
                             res.pushed))
        /\ rx' = res.rx
        /\ rxFIFO' = res.fifo
        /\ cdCount' = res.cd
  /\ UNCHANGED <<cfg, modemVars, _online, _mode, dyFIFO, flowControl, escVars,
                 millis, serVars, mainVars>>

(***************************************************************************)
(* The main loop: doSIO and the calls of the command interpreter.          *)
(***************************************************************************)
\* doSIO()
DoSIO ==
  /\ pc = "main"
  /\ LET r == SioCall(millis)
     IN /\ now' = millis
        /\ escCount' = r.esc
        /\ escFirst' = r.first
        /\ escLast' = r.last
        /\ _mode' = r.mode
        /\ serIn' = r.f.ser
        /\ serOut' = r.f.out
        /\ txFIFO' = r.f.txq
        /\ rxFIFO' = r.f.rxq
        /\ flowControl' = r.f.fc
        /\ cfg' = r.f.cfg
        /\ portCD' = r.f.port
        /\ lstChar' = r.f.lst
        /\ tx' = [tx EXCEPT !.active = r.f.active]
        /\ result' = (r.mode /= COMMAND_MODE)
        /\ hist' = [hist EXCEPT !.sioBand = BandOf(Len(txFIFO)),
                                !.sioFc = flowControl,
                                !.sioTook = r.f.took, !.sioEsc = escCount,
                                !.sioHead = SerPeek(serIn),
                                !.sioLate = millis - escLast > cfg.sregs[12] * 20,
                                !.seen = LastN(hist.seen \o r.f.took, 4),
                                !.seenAt = LastN(hist.seenAt \o
                                   [i \in 1..Len(r.f.took) |-> millis], 4),
                                !.sent = IF hist.log /\ Len(r.f.txq) > Len(txFIFO)
                                           THEN hist.sent \o r.f.took
                                           ELSE hist.sent]
  /\ UNCHANGED <<modemVars, cdCount, _online, dialVars, rx, dyFIFO, millis,
                 pc, timeout, dirIdx>>

\* setMode(mode)
SetMode(mode) ==
  /\ pc = "main"
  /\ _mode' = mode
  /\ hist' = hist
  /\ UNCHANGED <<cfg, modemVars, cdCount, _online, dialVars, tx, rx, txFIFO,
                 rxFIFO, dyFIFO, flowControl, escVars, millis, serVars, mainVars>>

\* setLine(online)
SetLine(online) ==
  /\ pc = "main"
  /\ _online' = online
  /\ _mode' = IF online = OFF THEN COMMAND_MODE ELSE _mode
  /\ hist' = hist
  /\ UNCHANGED <<cfg, modemVars, cdCount, dialVars, tx, rx, txFIFO,
                 rxFIFO, dyFIFO, flowControl, escVars, millis, serVars, mainVars>>

\* setCarrier(onoff)
SetCarrier(onoff) ==
  /\ pc = "main"
  /\ tx' = [tx EXCEPT !.carrier = CarrierOf(onoff, cfg)]
  /\ hist' = hist
  /\ UNCHANGED <<cfg, modemVars, cdCount, _online, _mode, dialVars, rx, txFIFO,
                 rxFIFO, dyFIFO, flowControl, escVars, millis, serVars, mainVars>>

\* setDirection(dir, rev), up to the loop that fills the delay queue: the
\* direction, the carrier, the profiles, the three queues cleared
SetDirection(dir, rev) ==
  /\ pc = "main"
  /\ _dir' = dir
  /\ tx' = [tx EXCEPT !.carrier = CarrierOf(OFF, cfg)]
  /\ fsqTX' = IF TxIsOrig(dir, rev, cfg) THEN "orig" ELSE "answ"
  /\ fsqRX' = IF TxIsOrig(dir, rev, cfg) THEN "answ" ELSE "orig"
  /\ rxFIFO' = <<>>
  /\ txFIFO' = <<>>
  /\ dyFIFO' = <<>>
  /\ dirIdx' = 0
  /\ pc' = "setDirection"
  /\ hist' = [hist EXCEPT !.setDir = TRUE]
  /\ UNCHANGED <<cfg, cfgAFSK, fulBit, hlfBit, qrtBit, octBit, cdTotal, _guard,
                 cdCount, _online, _mode, dialVars, rx, flowControl, escVars,
                 millis, serVars, timeout, result>>

\* One turn of the loop: dyFIFO.in(bias)
SetDirectionFill ==
  /\ pc = "setDirection"
  /\ dirIdx < cfgAFSK[fsqRX].queuelen
  /\ dyFIFO' = FifoIn(dyFIFO, bias, dyCap)
  /\ dirIdx' = (dirIdx + 1) % Byte
  /\ hist' = hist
  /\ UNCHANGED <<cfg, modemVars, cdCount, _online, _mode, dialVars, tx, rx,
                 txFIFO, rxFIFO, flowControl, escVars, millis, serVars,
                 pc, timeout, result>>

\* The loop is over
SetDirectionEnd ==
  /\ pc = "setDirection"
  /\ ~(dirIdx < cfgAFSK[fsqRX].queuelen)
  /\ pc' = "main"
  /\ hist' = hist
  /\ UNCHANGED <<cfg, modemVars, cdCount, _online, _mode, dialVars, tx, rx,
                 txFIFO, rxFIFO, dyFIFO, flowControl, escVars, millis, serVars,
                 timeout, result, dirIdx>>

\* setModemType(afsk)
SetModemType(afsk) ==
  /\ pc = "main"
  /\ cfgAFSK' = InitSteps(afsk)
  /\ _online' = OFF
  /\ _mode' = COMMAND_MODE
  /\ SetDirectionTo(ORIGINATING, OFF, InitSteps(afsk))
  /\ fulBit' = F_SAMPLE \div afsk.baud
  /\ hlfBit' = Shr(F_SAMPLE \div afsk.baud, 1)
  /\ qrtBit' = Shr(F_SAMPLE \div afsk.baud, 2)
  /\ octBit' = Shr(F_SAMPLE \div afsk.baud, 3)
  /\ cdTotal' = CdTotalOf(cfg)
  /\ hist' = hist
  /\ UNCHANGED <<cfg, _guard, cdCount, dialVars, rx, flowControl, escVars,
                 millis, serVars, mainVars>>

(***************************************************************************)
(* checkCarrier(): the entry, the polling loop and the return.             *)
(***************************************************************************)
\* The entry: the led off, S7 tested, the decoder sent to CARRIER
CheckCarrierBegin ==
  /\ pc = "main"
  /\ UNCHANGED dirIdx
  /\ portCD' = IF cfg.sregs[7] = 0 THEN ON ELSE OFF
  /\ IF cfg.sregs[7] = 0
       THEN /\ rx' = [rx EXCEPT !.carrier = ON]
            /\ result' = TRUE
            /\ UNCHANGED pc
       ELSE /\ rx' = [rx EXCEPT !.state = "CARRIER"]
            /\ pc' = "checkCarrierOff"
            /\ UNCHANGED result
  /\ hist' = hist
  /\ UNCHANGED <<cfg, modemVars, cdCount, _online, _mode, dialVars, tx, txFIFO,
                 rxFIFO, dyFIFO, flowControl, escVars, millis, serIn, serOut,
                 timeout>>

\* rx.carrier = OFF
CheckCarrierOff ==
  /\ pc = "checkCarrierOff"
  /\ UNCHANGED dirIdx
  /\ rx' = [rx EXCEPT !.carrier = OFF]
  /\ pc' = "checkCarrierZero"
  /\ hist' = hist
  /\ UNCHANGED <<cfg, modemVars, cdCount, _online, _mode, dialVars, tx, txFIFO,
                 rxFIFO, dyFIFO, flowControl, escVars, millis, serVars,
                 timeout, result>>

\* cdCount = 0, and the timeout of the loop
CheckCarrierZero ==
  /\ pc = "checkCarrierZero"
  /\ UNCHANGED dirIdx
  /\ cdCount' = 0
  /\ timeout' = millis + cfg.sregs[7] * 1000
  /\ pc' = "checkCarrier"
  /\ hist' = [hist EXCEPT !.cdIn = 0]
  /\ UNCHANGED <<cfg, modemVars, _online, _mode, dialVars, tx, rx, txFIFO,
                 rxFIFO, dyFIFO, flowControl, escVars, millis, serVars, result>>

\* One look at the loop condition that leaves the loop
CheckCarrierEnd ==
  /\ pc = "checkCarrier"
  /\ UNCHANGED dirIdx
  /\ ~(millis < timeout) \/ serIn /= <<>> \/ rx.carrier = ON
  /\ portCD' = IF rx.carrier = ON THEN ON ELSE portCD
  /\ result' = (rx.carrier = ON)
  /\ pc' = "main"
  /\ hist' = hist
  /\ UNCHANGED <<cfg, modemVars, cdCount, _online, _mode, dialVars, tx, rx,
                 txFIFO, rxFIFO, dyFIFO, flowControl, escVars, millis,
                 serIn, serOut, timeout>>

(***************************************************************************)
(* dial(phone): the entry, the polling loop and the return.                *)
(***************************************************************************)
\* Sanitize S8
DialS8(c) == IF c.sregs[8] > 6 THEN [c EXCEPT !.sregs[8] = 2] ELSE c

RECURSIVE FifoFill(_, _, _)
FifoFill(q, xs, cap) ==
  IF xs = <<>> THEN q ELSE FifoFill(FifoIn(q, Head(xs), cap), Tail(xs), cap)

DialBegin(phone) ==
  /\ pc = "main"
  /\ UNCHANGED dirIdx
  /\ tx' = [tx EXCEPT !.carrier = CarrierOf(OFF, cfg)]
  /\ cfg' = DialS8(cfg)
  /\ _commaMax' = F_SAMPLE * DialS8(cfg).sregs[8]
  /\ _commaCnt' = 0
  /\ txFIFO' = FifoFill(<<>>, <<COMMA>> \o phone \o <<COMMA>>, txCap)
  /\ _dialing' = ON
  /\ result' = TRUE
  /\ pc' = "dial"
  /\ hist' = [hist EXCEPT !.dialLen = Len(phone) + 2, !.dialFed = 0,
                          !.dialFramed = 0, !.dialTick = FALSE,
                          !.dialCut = FALSE, !.dialRet = "none"]
  /\ UNCHANGED <<modemVars, cdCount, _online, _mode, dialChar, dtmf, rx, rxFIFO,
                 dyFIFO, flowControl, escVars, millis, serVars, timeout>>

\* The loop condition holds: while (_dialing == ON)
DialTest ==
  /\ pc = "dial"
  /\ UNCHANGED dirIdx
  /\ _dialing = ON
  /\ pc' = "dialBody"
  /\ hist' = hist
  /\ UNCHANGED <<cfg, modemVars, cdCount, _online, _mode, dialVars, tx, rx,
                 txFIFO, rxFIFO, dyFIFO, flowControl, escVars, millis,
                 serVars, timeout, result>>

\* The body of the loop: stop dialing if there is any char on serial, then
\* the busy delay
DialPoll ==
  /\ pc = "dialBody"
  /\ UNCHANGED dirIdx
  /\ pc' = "dial"
  /\ IF serIn /= <<>>
       THEN /\ _dialing' = OFF
            /\ result' = FALSE
            /\ hist' = [hist EXCEPT !.dialCut = TRUE]
       ELSE /\ hist' = hist
            /\ UNCHANGED <<_dialing, result>>
  /\ UNCHANGED <<cfg, modemVars, cdCount, _online, _mode, _commaCnt, _commaMax,
                 dialChar, dtmf, tx, rx, txFIFO, rxFIFO, dyFIFO, flowControl,
                 escVars, millis, serVars, timeout>>

\* The loop ends: dial returns result
DialEnd ==
  /\ pc = "dial"
  /\ UNCHANGED dirIdx
  /\ _dialing = OFF
  /\ pc' = "main"
  /\ hist' = [hist EXCEPT !.dialRet = IF result THEN "true" ELSE "false"]
  /\ UNCHANGED <<cfg, modemVars, cdCount, _online, _mode, dialVars, tx, rx,
                 txFIFO, rxFIFO, dyFIFO, flowControl, escVars, millis,
                 serVars, timeout, result>>

(***************************************************************************)
(* The initial states: after the construction and init(afsk, conf), then   *)
(* after the command interpreter has set the line and the mode.            *)
(***************************************************************************)
\* A modem type (AFSK_t): the tones, in units of the phase step
Profile(fs, fm, pol, qlen) ==
  [freq |-> (SPACE :> fs @@ MARK :> fm), step |-> (SPACE :> 0 @@ MARK :> 0),
   polarity |-> pol, queuelen |-> qlen]

Modem(baud, dtbits) ==
  [baud |-> baud, dtbits |-> dtbits,
   orig |-> Profile(1, 2, 0, 1), answ |-> Profile(2, 3, 1, 2)]

\* A configuration (CFG_t): the escape character is '+'
PLUS == 43
Config(s7, s8, s12, flw, carr) ==
  [sregs |-> (2 :> PLUS @@ 7 :> s7 @@ 8 :> s8 @@ 9 :> 1 @@ 11 :> 1 @@ 12 :> s12),
   dtecho |-> OFF, flwctr |-> flw, txcarr |-> carr, revans |-> OFF]

InitWith(c, afsk, online, mode, log) ==
  /\ cfg = c
  /\ cfgAFSK = InitSteps(afsk)
  /\ fsqTX = "orig"
  /\ fsqRX = "answ"
  /\ fulBit = F_SAMPLE \div afsk.baud
  /\ hlfBit = Shr(F_SAMPLE \div afsk.baud, 1)
  /\ qrtBit = Shr(F_SAMPLE \div afsk.baud, 2)
  /\ octBit = Shr(F_SAMPLE \div afsk.baud, 3)
  /\ cdTotal = CdTotalOf(c)
  /\ cdCount = 0
  /\ _guard = c.sregs[12] * 20
  /\ _online = online
  /\ _mode = mode
  /\ _dir = ORIGINATING
  /\ _dialing = OFF
  /\ _commaCnt = 0
  /\ _commaMax = 0
  /\ dialChar = NUL
  /\ dtmf = 0
  /\ tx = [active |-> OFF, carrier |-> OFF, state |-> "WAIT", dtbit |-> SPACE,
           data |-> 0, bits |-> 0, clk |-> 0, idx |-> 0]
  /\ rx = [state |-> "WAIT", data |-> 0, bits |-> 0, clk |-> 0, bitsum |-> 0,
           stream |-> 0, carrier |-> OFF, active |-> OFF,
           iirX |-> <<0, 0>>, iirY |-> <<0, 0>>]
  /\ txFIFO = <<>>
  /\ rxFIFO = <<>>
  /\ dyFIFO = DelayLine(afsk.answ.queuelen)
  /\ flowControl = FALSE
  /\ escCount = 0
  /\ escFirst = 0
  /\ escLast = 0
  /\ lstChar = 0
  /\ now = 0
  /\ millis = 0
  /\ serIn = <<>>
  /\ serOut = <<>>
  /\ portCD = OFF
  /\ pc = "main"
  /\ timeout = 0
  /\ result = FALSE
  /\ dirIdx = 0
  /\ hist = HistInit(log)

(***************************************************************************)
(* SpecTx: the framing of the transmitter.  Eight data bits, a short bit,  *)
(* the carrier forced or not by setCarrier.                                *)
(***************************************************************************)
\* Bytes the transport delivers: 0x41 and bytes with other bit patterns
TxBytes == {65, 166}

\* The bauds that give a bit of 2, 4, 8 and 32 samples
BaudOf(n) == F_SAMPLE \div n

InitTx ==
  InitWith(Config(0, 2, 1, 0, ON), Modem(BaudOf(2), 8), ON, DATA_MODE, FALSE)

NextTx ==
  \/ \E b \in TxBytes : SerialArrive(b)
  \/ DoSIO
  \/ TxHandle
  \/ \E o \in {OFF, ON} : SetCarrier(o)

SpecTx == InitTx /\ [][NextTx]_vars

(***************************************************************************)
(* C2: the order of the symbols of a frame.                                *)
(***************************************************************************)
\* The frame of byte b after the preamble: start, data bits LSB first, stop
FrameOf(b) ==
  <<SPACE>> \o [i \in 1..cfgAFSK.dtbits |-> BitOf(b, i - 1)] \o <<MARK>>

\* The number of leading MARKs of a sequence of symbols
RECURSIVE LeadMarks(_)
LeadMarks(s) ==
  IF s = <<>> \/ Head(s) /= MARK THEN 0 ELSE 1 + LeadMarks(Tail(s))

\* s without its leading MARKs
AfterMarks(s) == SubSeq(s, LeadMarks(s) + 1, Len(s))

IsPrefix(s, t) == Len(s) <= Len(t) /\ SubSeq(t, 1, Len(s)) = s

\* The frame is complete: the stop bit was chosen
FrameDone == tx.state \in {"STOP_BIT", "TRAIL"}

\* C2: for a byte taken from the TX queue in WAIT, the symbols chosen at
\* the bit boundaries are MARK (at most carBits of them: the preamble), one
\* SPACE, the dtbits data bits of the byte from bit 0 up, and MARK; the
\* symbols chosen so far are always a prefix of that sequence and the whole
\* of it once the stop bit is chosen.  For 0x41 and 8 data bits the data
\* symbols are 1,0,0,0,0,0,1,0.
C2_FramingOrder ==
  hist.txFrom = "WAIT" =>
    /\ Head(hist.txSyms) = MARK
    /\ LeadMarks(hist.txSyms) <= carBits
    /\ IsPrefix(AfterMarks(hist.txSyms), FrameOf(hist.txByte))
    /\ FrameDone => AfterMarks(hist.txSyms) = FrameOf(hist.txByte)
    /\ (FrameDone /\ hist.txByte = 65 /\ cfgAFSK.dtbits = 8) =>
         AfterMarks(hist.txSyms) = <<SPACE, 1, 0, 0, 0, 0, 0, 1, 0, MARK>>

\* The stop bit of 0x41, taken from the queue in WAIT, was chosen
C2_Witness ==
  /\ hist.txFrom = "WAIT"
  /\ hist.txByte = 65
  /\ tx.state = "STOP_BIT"
  /\ Len(hist.txSyms) = carBits + cfgAFSK.dtbits + 2

(***************************************************************************)
(* SpecLoop: the loopback of the round trip.  The bytes of the transport   *)
(* go through doSIO, the TX queue and txHandle, and the symbol of each     *)
(* tick is the decision the decoder gets.                                  *)
(***************************************************************************)
LoopBytes == {65, 255}

\* The modem types of the loopback: [bit length, data bits]
LoopModems == {<<32, 8>>, <<32, 7>>}

InitLoop ==
  \E m \in LoopModems :
    InitWith(Config(0, 2, 1, 0, ON), Modem(BaudOf(m[1]), m[2]), ON, DATA_MODE, TRUE)

NextLoop ==
  \/ \E b \in LoopBytes : SerialArrive(b)
  \/ DoSIO
  \/ LoopTick

SpecLoop == InitLoop /\ [][NextLoop]_vars

\* Nothing is left to transmit: the transmitter went off after the trail
LoopIdle == ~TxOn(tx) /\ txFIFO = <<>>

\* C1: in the loopback the bytes pushed into the RX queue are the bytes
\* enqueued into the TX queue, in the same order: what was pushed so far
\* is a prefix of what was enqueued, and all of it once the transmitter is
\* idle again.
C1_RoundTrip ==
  /\ IsPrefix(hist.rcvd, hist.sent)
  /\ LoopIdle => hist.rcvd = hist.sent

(***************************************************************************)
(* SpecFlow: the flow control of doSIO.  The sender goes on sending, the   *)
(* sample tick takes the bytes out of the TX queue.                        *)
(***************************************************************************)
FlowByte == 97

InitFlow ==
  \E flw \in {3, 4} :
    InitWith(Config(0, 2, 1, flw, OFF), Modem(BaudOf(1), 1), ON, DATA_MODE, FALSE)

NextFlow ==
  \/ SerialStream(FlowByte)
  \/ DoSIO
  \/ TxHandle

SpecFlow == InitFlow /\ [][NextFlow]_vars

\* The call runs the data mode part, with a flow control mode configured
FlowCall == DoSIO /\ _mode' /= COMMAND_MODE /\ cfg.flwctr /= 0

\* C3 as claimed: the flag changes in doSIO only; with the length a call
\* sees taken as the length of the queue when the call begins, it engages
\* only in a call that sees 48 or more, and in the first such call; it is
\* released only in a call that sees less than 16, and in the first such
\* call; it does not change in a call that sees a length from 16 to 47.
C3_HysteresisAtEntry ==
  [][/\ flowControl' /= flowControl => DoSIO
     /\ FlowCall =>
          /\ (~flowControl /\ flowControl') => Len(txFIFO) >= fifoHgh
          /\ (~flowControl /\ Len(txFIFO) >= fifoHgh) => flowControl'
          /\ (flowControl /\ ~flowControl') => Len(txFIFO) < fifoLow
          /\ (flowControl /\ Len(txFIFO) < fifoLow) => ~flowControl'
          /\ (Len(txFIFO) >= fifoLow /\ Len(txFIFO) < fifoHgh) =>
               flowControl' = flowControl]_vars

\* C3, amended: the hysteresis of the backpressure flag.  The flag changes in doSIO
\* only.  It engages only in a call that sees a length of 48 or more, and in
\* the first such call; it is released only in a call that sees a length
\* below 16, and in the first such call; it does not change in a call that
\* sees a length from 16 to 47.  The length a call sees is the one its check
\* reads: the check that engages reads it before the call takes any byte,
\* the check that releases reads it after the byte (if any) the call took.
C3_Hysteresis ==
  [][/\ flowControl' /= flowControl => DoSIO
     /\ FlowCall =>
          /\ (~flowControl /\ flowControl') => Len(txFIFO) >= fifoHgh
          /\ (~flowControl /\ Len(txFIFO) >= fifoHgh) => flowControl'
          /\ (flowControl /\ ~flowControl') =>
               (Len(txFIFO) < fifoLow /\ Len(txFIFO') < fifoLow)
          /\ (flowControl /\ Len(txFIFO') < fifoLow) => ~flowControl'
          /\ (Len(txFIFO) >= fifoLow /\ Len(txFIFO) < fifoHgh) =>
               flowControl' = flowControl]_vars

\* A call that began with the flag released and the queue at the high
\* threshold engaged the flag and took no byte
C3_Witness ==
  /\ flowControl
  /\ ~hist.sioFc
  /\ hist.sioBand = "full"
  /\ hist.sioTook = <<>>
  /\ Len(txFIFO) >= fifoHgh

\* C4 as claimed: no call that begins and ends with the backpressure
\* engaged reads a byte from the transport or enqueues one
C4_NoByteWhileEngaged ==
  [][(DoSIO /\ flowControl /\ flowControl') =>
       (serIn' = serIn /\ txFIFO' = txFIFO)]_vars

\* C4, amended: a call that begins with the backpressure engaged enqueues
\* a byte into the TX queue exactly when it is in data mode, a byte is
\* waiting and the queue is shorter than the medium threshold (32); it
\* enqueues none when it sees a length of 32 or more.
C4_TakesBelowMed ==
  [][(DoSIO /\ flowControl) =>
       (txFIFO' /= txFIFO <=>
          (_mode' /= COMMAND_MODE /\ serIn /= <<>> /\ Len(txFIFO) < fifoMed))]_vars

\* A call that began with the backpressure engaged and the queue between
\* the low and the medium threshold took a byte, and left it engaged
C4_Witness ==
  /\ flowControl
  /\ hist.sioFc
  /\ hist.sioBand = "med"
  /\ hist.sioTook /= <<>>

(***************************************************************************)
(* SpecEsc: the escape sequence of doSIO.  Escape characters, letters and  *)
(* line ends arrive while the clock advances; in command mode the command  *)
(* interpreter reads the transport.                                        *)
(***************************************************************************)
LETTER == 97
EscBytes == {PLUS, LETTER, CR}

InitEsc ==
  InitWith(Config(0, 2, 1, 0, OFF), Modem(BaudOf(2), 8), ON, DATA_MODE, FALSE)

NextEsc ==
  \/ \E b \in EscBytes : EscArrive(b)
  \/ Advance(TimeStep)
  \/ DoSIO
  \/ AtRead

SpecEsc == InitEsc /\ [][NextEsc]_vars

\* The guard period since the third escape character is over, at a call
\* made now
EscLate == millis - escLast > cfg.sregs[12] * 20

\* The call wrote the acknowledgement
WroteOK(out) == Len(out) >= Len(OKMSG) /\ SubSeq(out, 1, Len(OKMSG)) = OKMSG

\* The acknowledgement is in the output once
OnceOK(out) ==
  /\ WroteOK(out)
  /\ \A i \in 2..Len(out) :
       i + Len(OKMSG) - 1 <= Len(out) => SubSeq(out, i, i + Len(OKMSG) - 1) /= OKMSG

\* The last three bytes doSIO took were the escape character, after a
\* letter or nothing, no more than the guard time from the first to the
\* third, and nothing has come for longer than the guard period since the
\* third
C5_Case ==
  /\ _mode = DATA_MODE
  /\ hist.seen \in {<<PLUS, PLUS, PLUS>>, <<LETTER, PLUS, PLUS, PLUS>>}
  /\ LET n == Len(hist.seen)
     IN /\ hist.seenAt[n] - hist.seenAt[n - 2] <= _guard
        /\ millis - hist.seenAt[n] > cfg.sregs[12] * 20
  /\ serIn = <<>>

C6_ThreeConsecutive ==
  [][DoSIO =>
       /\ (_mode /= COMMAND_MODE /\ _mode' = COMMAND_MODE) =>
            LastN(hist.seen, 3) = <<PLUS, PLUS, PLUS>>
       /\ (/\ escCount \in {1, 2}
           /\ serIn /= <<>>
           /\ Head(serIn) /= PLUS
           /\ ~IsCRLF(Head(serIn))) =>
            escCount' = 0]_vars

\* The case of C7: the count is 3, the guard period is not over and a byte
\* other than CR or LF waits on the transport
C7_Case == escCount = 3 /\ ~EscLate /\ serIn /= <<>> /\ ~IsCRLF(Head(serIn))

\* C7 as claimed: in that case the call leaves the match count at 0 and
\* does not switch to command mode
C7_CancelToZero ==
  [][(DoSIO /\ C7_Case) =>
       (escCount' = 0 /\ _mode' = _mode /\ ~WroteOK(serOut'))]_vars

\* C7, amended: in that case the call cancels the sequence and does not
\* switch to command mode; the match count is 0 after the call when the
\* byte is not the escape character, and at most 1 when it is (the call
\* may count it as the first match of a new sequence).
C7_CancelRestart ==
  [][(DoSIO /\ C7_Case) =>
       /\ _mode' = _mode
       /\ ~WroteOK(serOut')
       /\ escCount' <= 1
       /\ Head(serIn) /= PLUS => escCount' = 0]_vars

\* A letter came after the third escape character, before the guard
\* period was over: the count is 0 and the mode is still the data mode
C7_Witness ==
  /\ hist.sioEsc = 3
  /\ ~hist.sioLate
  /\ hist.sioHead = LETTER
  /\ escCount = 0
  /\ _mode = DATA_MODE

(***************************************************************************)
(* SpecRx: the decoder alone, on any stream of tone decisions.             *)
(***************************************************************************)
RxDataBits == {1, 2}

\* The samples of a bit: an even and an odd number of them
RxBitLens == {7, 8}

InitRx ==
  \E d \in RxDataBits, n \in RxBitLens :
    InitWith(Config(0, 2, 1, 0, OFF), Modem(BaudOf(n), d), ON, DATA_MODE, TRUE)

NextRx == \E bt \in {0, 1} : RxDecoderStep(bt)

SpecRx == InitRx /\ [][NextRx]_vars

\* C8: when the HIGH decisions counted over the whole start-bit window
\* (the fulBit samples after the HIGH->LOW edge) are more than qrtBit, the
\* decoder goes from START_BIT to WAIT and pushes no byte; the decoder goes
\* on to the data bits only after a start bit that passed the half-bit and
\* the full-bit validation, and a byte is pushed into the RX queue only at
\* the stop bit of a frame whose start bit passed both.
C8_StartBitRejection ==
  [][/\ (rx.state = "START_BIT" /\ hist'.rxN = fulBit /\ hist'.rxHigh > qrtBit) =>
          (rx'.state = "WAIT" /\ rxFIFO' = rxFIFO)
     /\ (rx.state = "START_BIT" /\ rx'.state /= "START_BIT") => hist'.rxN = fulBit
     /\ rx'.state \in {"DATA_BIT", "STOP_BIT"} => (hist'.rxHalf /\ hist'.rxFull)
     /\ rxFIFO' /= rxFIFO =>
          (rx.state = "STOP_BIT" /\ hist.rxHalf /\ hist.rxFull)]_vars

\* A start bit that passed the half-bit validation and had too many HIGHs
\* over the whole window was rejected
C8_Witness ==
  /\ rx.state = "WAIT"
  /\ hist.rxN = fulBit
  /\ hist.rxHigh > qrtBit
  /\ hist.rxHalf
  /\ ~hist.rxFull
  /\ rxFIFO = <<>>

(***************************************************************************)
(* SpecMain: the operations of the main context (the command interpreter   *)
(* and the byte-moving loop) interleaved with the sample tick.             *)
(***************************************************************************)
\* The samples of the converter: below and above the bias
Samples == {64, 192}

\* The digit the command interpreter dials
DIGIT == 49

\* Off line and in command mode, as setModemType leaves the modem; S7 and
\* S8 as the command interpreter may have set them
InitMain ==
  InitWith(Config(1, 7, 1, 3, ON), Modem(BaudOf(2), 1), OFF, COMMAND_MODE, FALSE)

NextMain ==
  \/ Arrive(LETTER, MainBytes)
  \/ DoSIO
  \/ SetMode(DATA_MODE)
  \/ \E o \in {OFF, ON} : SetLine(o)
  \/ SetCarrier(ON)
  \/ \E d \in {ORIGINATING, ANSWERING} : SetDirection(d, OFF)
  \/ SetDirectionFill
  \/ SetDirectionEnd
  \/ CheckCarrierBegin
  \/ CheckCarrierOff
  \/ CheckCarrierZero
  \/ CheckCarrierEnd
  \/ DialBegin(<<DIGIT>>)
  \/ DialTest
  \/ DialPoll
  \/ DialEnd
  \/ \E sample \in Samples : DoTXRX(sample)

SpecMain == InitMain /\ [][NextMain]_vars

\* A TxState or an RxState, the flags active and carrier left out
NoFlags(r) == [r EXCEPT !.active = OFF, !.carrier = OFF]

\* The step is a sample tick
IsTick == hist'.ticks = hist.ticks + 1

\* C9 as claimed: no operation of the core changes a field of the
\* configuration structure
C9_ConfigReadOnly == [][cfg' = cfg]_vars

\* C10 as claimed: a step that is not a sample tick writes no field of
\* TxState or RxState other than active and carrier, does not write the
\* carrier-detect counter and does not touch the RX delay line
C10_TickOwnsSampleState ==
  [][~IsTick =>
       /\ NoFlags(tx') = NoFlags(tx)
       /\ NoFlags(rx') = NoFlags(rx)
       /\ cdCount' = cdCount
       /\ dyFIFO' = dyFIFO]_vars

(***************************************************************************)
(* SpecDial: dial() and its polling loop, interleaved with the sample tick *)
(* and with doSIO before and after it.                                     *)
(***************************************************************************)
\* The values of S8 (seconds of a comma pause) the configuration may hold
DialPauses == {0, 7}

InitDial ==
  \E s8 \in DialPauses :
    InitWith(Config(0, s8, 1, 0, ON), Modem(BaudOf(2), 1), ON, DATA_MODE, FALSE)

NextDial ==
  \/ Arrive(LETTER, MainBytes)
  \/ DoSIO
  \/ TxHandle
  \/ DialBegin(<<DIGIT>>)
  \/ DialTest
  \/ DialPoll
  \/ DialEnd

SpecDial == InitDial /\ [][NextDial]_vars

\* The dialing branch of the tick took the whole wrapped sequence and
\* cleared the dialing flag itself
DialComplete == hist.dialTick /\ hist.dialFed = hist.dialLen

\* C11 as claimed: dial returns true exactly when the dialing branch of the
\* tick consumed the whole wrapped sequence and cleared the dialing flag,
\* and false exactly when the transport interrupted it before the sequence
\* was complete.
C11_DialResult ==
  hist.dialRet /= "none" =>
    /\ hist.dialRet = "true" <=> DialComplete
    /\ hist.dialRet = "false" <=> (hist.dialCut /\ ~hist.dialTick)

\* C20 as claimed: from the moment dial has filled the TX queue and set the
\* dialing flag until dialing ends, no byte is taken out of the TX queue by
\* the framing branch of the tick: every byte taken goes to the dialing
\* branch.
C20_DialBypassesFraming == hist.dialFramed = 0

\* C12 as claimed: whenever txHandle clears tx.active at the end of TRAIL
\* the TX queue is empty, and a byte enqueued during TRAIL is taken at the
\* next bit boundary of TRAIL and framed (START_BIT).
C12_NoByteStranded ==
  [][/\ (tx.active = ON /\ tx'.active = OFF) => txFIFO' = <<>>
     /\ (/\ TxHandle
         /\ TxOn(tx)
         /\ tx.state = "TRAIL"
         /\ TxBitOver(tx)
         /\ txFIFO /= <<>>) => tx'.state = "START_BIT"]_vars

\* C13 as claimed: on every tick at which the modulator transmits, the
\* phase accumulator after the tick is its value before the tick plus the
\* step of the current symbol, modulo the width of the accumulator; no
\* other step changes it while the modulator transmits.
C13_PhaseContinuity ==
  [][TxOn(tx) =>
       IF TxHandle
         THEN tx'.idx = (tx.idx + cfgAFSK[fsqTX].step[tx.dtbit]) % IdxMod
         ELSE tx'.idx = tx.idx]_vars

\* C14 as claimed: every transmitted symbol (start, data, stop) lasts
\* exactly fulBit sample ticks, the number the decoder counts for a bit.
C14_BitPeriod == hist.bitLen \in {0, fulBit}

\* The preamble of a byte taken in WAIT is over: the start bit was chosen
PreambleOver == hist.txFrom = "WAIT" /\ hist.preCarr /= -1

\* C15 as claimed: the preamble of a byte taken in WAIT lasts carBits bit
\* periods of MARK; it is shorter only when the forced carrier is cleared,
\* and with the forced carrier set it is not shortened.
C15_PreambleClaimed ==
  PreambleOver =>
    /\ LeadMarks(hist.txSyms) <= carBits
    /\ LeadMarks(hist.txSyms) < carBits => hist.preCarr = OFF
    /\ hist.preCarr = ON => LeadMarks(hist.txSyms) = carBits

\* C15, amended: the preamble of a byte taken in WAIT lasts at most carBits
\* bit periods of MARK, then the SPACE start bit follows; it lasts carBits
\* periods when the forced carrier is cleared at the boundary that ends it,
\* and it is shorter only when the forced carrier is set at that boundary;
\* a bit boundary of PREAMBLE with the forced carrier set always ends it.
C15_PreambleLength ==
  [][/\ PreambleOver' =>
          /\ LeadMarks(hist'.txSyms) <= carBits
          /\ LeadMarks(hist'.txSyms) < carBits => hist'.preCarr = ON
          /\ hist'.preCarr = OFF => LeadMarks(hist'.txSyms) = carBits
          /\ Len(hist'.txSyms) > LeadMarks(hist'.txSyms)
          /\ hist'.txSyms[LeadMarks(hist'.txSyms) + 1] = SPACE
     /\ (TxHandle /\ tx.state = "PREAMBLE" /\ TxBitOver(tx) /\ tx.carrier = ON) =>
          (tx'.state = "START_BIT" /\ tx'.dtbit = SPACE)
     /\ (TxHandle /\ tx.state = "PREAMBLE" /\ tx'.state /= "PREAMBLE") =>
          (TxBitOver(tx) /\ tx'.state = "START_BIT")]_vars

\* With the forced carrier set, the preamble of a byte taken in WAIT ended
\* after one bit period
C15_Witness ==
  /\ PreambleOver
  /\ hist.preCarr = ON
  /\ LeadMarks(hist.txSyms) = 1
  /\ tx.state = "START_BIT"

\* The bytes of flow control among what an operation wrote
FlowBytes(out) == SelectSeq(out, LAMBDA c : c \in {XON, XOFF})

\* C16: when the flow control engages or is released, doSIO signals it the
\* way the configured mode says: with XON/XOFF (4) it writes XOFF on engage
\* and XON on release and leaves the control line alone; with RTS/CTS (3)
\* it lowers the control line on engage and raises it on release, and
\* writes no XON or XOFF byte.
C16_ModeSelectedSignal ==
  [][(DoSIO /\ flowControl' /= flowControl) =>
       /\ cfg.flwctr = 4 =>
            /\ FlowBytes(serOut') = <<IF flowControl' THEN XOFF ELSE XON>>
            /\ portCD' = portCD
       /\ cfg.flwctr = 3 =>
            /\ FlowBytes(serOut') = <<>>
            /\ portCD' = IF flowControl' THEN OFF ELSE ON]_vars

(***************************************************************************)
(* SpecCarrier: checkCarrier() in the main context while the sample tick   *)
(* feeds the decoder any stream of tone decisions.                         *)
(***************************************************************************)
\* A tick of the decoder
RxTick == \E bt \in {0, 1} : hist.ticks < MaxCdTicks /\ RxDecoderStep(bt)

InitCarrier ==
  InitWith(Config(1, 2, 1, 0, OFF), Modem(BaudOf(2), 1), ON, DATA_MODE, FALSE)

NextCarrier ==
  \/ Arrive(LETTER, MainBytes)
  \/ CheckCarrierBegin
  \/ CheckCarrierOff
  \/ CheckCarrierZero
  \/ CheckCarrierEnd
  \/ RxTick

SpecCarrier == InitCarrier /\ [][NextCarrier]_vars

\* checkCarrier is past its entry: the decoder counts for the carrier
CdCounting == pc \in {"main", "checkCarrier"}

\* C17: while the decoder is in CARRIER (checkCarrier past its entry),
\* cdCount is the number of HIGH decisions in a row it has got there since
\* the last decision that was not HIGH; the tick that brings cdCount to
\* cdTotal, and no other tick in CARRIER, sets rx.carrier and sends the
\* decoder to WAIT; and with S7 not zero, rx.carrier is set only when the
\* last cdTotal decisions were HIGH.
C17_CarrierDetection ==
  [][/\ (rx'.state = "CARRIER" /\ CdCounting') => cdCount' = hist'.cdIn
     /\ (RxTick /\ rx.state = "CARRIER") =>
          IF cdCount < cdTotal /\ cdCount' = cdTotal
            THEN rx'.carrier = ON /\ rx'.state = "WAIT"
            ELSE rx'.carrier = rx.carrier /\ rx'.state = "CARRIER"
     /\ (cfg.sregs[7] /= 0 /\ rx.carrier = OFF /\ rx'.carrier = ON) =>
          hist'.cdRun >= cdTotal]_vars

\* The longest a frame may keep the decoder: (dtbits + 2) bit periods
RxFrameMax == (cfgAFSK.dtbits + 2) * fulBit

\* C18: on any stream of decisions, the decoder that left WAIT on an edge
\* is back in WAIT at most (dtbits + 2) * fulBit decisions later; it leaves
\* PREAMBLE, START_BIT and STOP_BIT for WAIT when the check of the state
\* rejects, it leaves STOP_BIT for WAIT in every case, and a byte is pushed
\* only by a step that ends in WAIT.
C18_NeverStalls ==
  [][/\ hist'.rxAway <= RxFrameMax
     /\ rx'.state \in RxFrameStates => hist'.rxAway < RxFrameMax
     /\ (rx.state = "PREAMBLE" /\ rx'.state /= "PREAMBLE") =>
          IF hist'.rxHalf THEN rx'.state = "START_BIT" ELSE rx'.state = "WAIT"
     /\ (rx.state = "START_BIT" /\ rx'.state /= "START_BIT") =>
          IF hist'.rxFull THEN rx'.state = "DATA_BIT" ELSE rx'.state = "WAIT"
     /\ (rx.state = "DATA_BIT" /\ rx'.state /= "DATA_BIT") => rx'.state = "STOP_BIT"
     /\ (rx.state = "STOP_BIT" /\ rx'.state /= "STOP_BIT") => rx'.state = "WAIT"
     /\ rxFIFO' /= rxFIFO => rx'.state = "WAIT"]_vars

\* A frame was accepted, and the decoder is back in WAIT after the start
\* bit, the data bits and the first half of the stop bit
C18_Witness ==
  /\ rx.state = "WAIT"
  /\ rxFIFO /= <<>>
  /\ hist.rxHalf /\ hist.rxFull
  /\ hist.rxAway = (cfgAFSK.dtbits + 1) * fulBit + (fulBit - hlfBit)

\* The decoder leaves the stop bit at this step
StopOver == rx.state = "STOP_BIT" /\ rx'.state /= "STOP_BIT"

\* What the stop bit decides, n being the decisions of its window
StopDecision(n) ==
  /\ StopOver =>
       /\ hist'.stN = n
       /\ rx'.state = "WAIT"
       /\ rxFIFO' = IF hist'.stHigh > qrtBit
                      THEN FifoIn(rxFIFO, rx.data, rxCap) ELSE rxFIFO
  /\ (rx.state = "STOP_BIT" /\ ~StopOver) => (hist'.stN < n /\ rxFIFO' = rxFIFO)

\* C19 as claimed: after the last data bit the decoder counts hlfBit
\* decisions; when more than qrtBit of them are HIGH it pushes the byte
\* once, otherwise it pushes nothing; then it is in WAIT.
C19_StopHalfBit == [][StopDecision(hlfBit)]_vars

\* C19, amended: after the last data bit the decoder counts fulBit - hlfBit
\* decisions (hlfBit of them when fulBit is even, hlfBit + 1 when it is
\* odd); when more than qrtBit of them are HIGH it pushes the byte once,
\* otherwise it pushes nothing; then it is in WAIT.
C19_StopDecision == [][StopDecision(fulBit - hlfBit)]_vars

\* With a bit of an odd number of samples, a byte was pushed after a stop
\* window of hlfBit + 1 decisions
C19_Witness ==
  /\ rx.state = "WAIT"
  /\ fulBit % 2 = 1
  /\ hist.stN = hlfBit + 1
  /\ hist.stHigh > qrtBit
  /\ Len(rxFIFO) = 1

(***************************************************************************)
(* SpecDelay: setDirection() in the main context while the sample tick     *)
(* runs txHandle and rxHandle.                                             *)
(***************************************************************************)
InitDelay ==
  InitWith(Config(0, 2, 1, 0, OFF), Modem(BaudOf(2), 1), ON, DATA_MODE, FALSE)

\* The sample tick, in a run of setDirection
DelayTick == \E sample \in Samples : DoTXRXUpTo(sample, MaxDelayTicks)

NextDelay ==
  \/ \E d \in {ORIGINATING, ANSWERING} : SetDirection(d, OFF)
  \/ SetDirectionFill
  \/ SetDirectionEnd
  \/ DelayTick

SpecDelay == InitDelay /\ [][NextDelay]_vars

\* C21: once setDirection has run, and after every sample tick that comes
\* after it, whatever ticks came while it ran, the delay line holds as many samples as the queue
\* length of the RX profile; a sample tick takes one sample out and puts
\* one in, and setDirection leaves the line filled with queuelen bias
\* samples.
C21_DelayLineLength ==
  [][/\ (DelayTick /\ hist.setDir /\ pc = "main") =>
          Len(dyFIFO') = cfgAFSK[fsqRX].queuelen
     /\ SetDirectionEnd => dyFIFO' = DelayLine(cfgAFSK[fsqRX].queuelen)
     /\ (pc' = "main" /\ hist'.setDir) =>
          Len(dyFIFO') = cfgAFSK[fsqRX'].queuelen]_vars

(***************************************************************************)
(* SpecBurst: doSIO on a transport where a second byte may wait behind the *)
(* first: escape characters and line ends arrive while the clock advances. *)
(***************************************************************************)
BurstBytes == {PLUS, CR}

InitBurst ==
  InitWith(Config(0, 2, 1, 0, OFF), Modem(BaudOf(2), 8), ON, DATA_MODE, FALSE)

NextBurst ==
  \/ \E b \in BurstBytes : ArriveUpTo(b, MaxBurstBytes, BurstCap)
  \/ Advance(TimeStep)
  \/ DoSIO

SpecBurst == InitBurst /\ [][NextBurst]_vars

\* C22: after any calls of doSIO, whatever the transport holds and whenever
\* the calls are made, the count of escape characters is 0, 1, 2 or 3.
C22_EscCountRange == escCount \in 0..3

\* C23: a byte a call of doSIO puts into the TX queue is a byte that was
\* waiting on the transport when the call took it: the call reads, for the
\* TX queue, a transport that holds a byte at that moment, also when its
\* escape logic has read a CR or a LF before.
C23_NoSpuriousByte ==
  [][DoSIO =>
       \/ txFIFO' = txFIFO
       \/ /\ serIn /= <<>>
          /\ serIn' = Tail(serIn) \/ (Len(serIn) > 1 /\ serIn' = Tail(Tail(serIn)))
          /\ txFIFO' = Append(txFIFO, serIn[Len(serIn) - Len(serIn')])]_vars

====
